---- MODULE Spec2Model ----
(***************************************************************************)
(* A model of the RAG retrieval engine of small_demo/RAG/realworld:        *)
(*   - VectorStore (src/realworld/vector_store.py): the collection of      *)
(*     records and add_documents / update_document / delete_documents /    *)
(*     clear_collection;                                                   *)
(*   - OllamaClient (rag_engine.py): generate_embedding and generate_text  *)
(*     under the @retry decorator;                                         *)
(*   - RAGEngine.query (rag_engine.py): search, threshold filter, answer;  *)
(*   - the embedders of src/realworld/embedders.py;                        *)
(*   - EmbeddingCache (src/realworld/vector_store.py): get, set, clear;    *)
(*   - RAGEngine.add_documents (rag_engine.py): cache lookup, embedding    *)
(*     and the write to the vector store;                                  *)
(*   - TextSplitter.split_text (document_processor.py).                    *)
(* The ChromaDB collection, the HTTP service and the clock are the         *)
(* environment: their answers are drawn nondeterministically.              *)
(***************************************************************************)
EXTENDS Integers, Sequences, FiniteSets, Bags, TLC

VARIABLES
    collection,   \* VectorStore.collection: the bag of live records
    last,         \* the last completed VectorStore call: its arguments and result
    call,         \* the OllamaClient call in progress, under its @retry decorator
    query,        \* the RAGEngine.query call in progress and what it returned
    gen_requests, \* requests sent to /api/generate since the query started
    embedder,     \* the Embedder.generate_embedding call in progress
    cache,        \* EmbeddingCache: the file of each text under cache_dir
    now,          \* the clock, in units of the cache's ttl
    cache_call,   \* the last completed EmbeddingCache call
    ingest,       \* the RAGEngine.add_documents call in progress
    split,        \* the TextSplitter.split_text call and what it returned
    config,       \* the environment, the config file and config._config
    adders,       \* the add_documents calls running at the same time
    race          \* a get and a set of the cache on one file, step by step

storeVars == <<collection, last>>
queryVars == <<call, query, gen_requests>>
moreVars == <<config, adders, race>>
otherVars == <<embedder, cache, now, cache_call, ingest, split, moreVars>>
vars == <<collection, last, call, query, gen_requests,
          embedder, cache, now, cache_call, ingest, split, config, adders, race>>

(***************************************************************************)
(* Bounds of the model.                                                    *)
(***************************************************************************)
MaxDocs == 2          \* longest list handed to add_documents

BatchSizes == {1, 2}  \* the batch_size arguments tried

Min(a, b) == IF a < b THEN a ELSE b

(***************************************************************************)
(* Documents (document_processor.Document): content and metadata.          *)
(* source "" stands for a metadata without the key 'source', which is what *)
(* metadata.get('source', '') yields for it.  The three documents are the  *)
(* ones whose source + content is "ab" or "aab": two contents under the    *)
(* source "a", one content under two sources, and two documents with the   *)
(* same source + content string.                                           *)
(***************************************************************************)
Contents == {"b", "ab"}
Sources == {"", "a"}
Metadatas == [source : Sources]
Document ==
    {d \in [content : Contents, metadata : Metadatas] :
        Len(d.metadata.source \o d.content) >= 2}

\* hashlib.md5(...).hexdigest(): a digest, taken to be free of collisions
Md5(s) == "#" \o s

\* VectorStore._generate_id
_generate_id(content, metadata) ==
    LET source == metadata.source
        content_hash == Md5(source \o content)
    IN  source \o "_" \o content_hash

DocId(doc) == _generate_id(doc.content, doc.metadata)

AllIds == {DocId(d) : d \in Document}

RECURSIVE SeqsUpTo(_, _)
SeqsUpTo(S, n) ==
    IF n = 0 THEN {<<>>}
    ELSE LET shorter == SeqsUpTo(S, n - 1)
         IN  shorter \cup {Append(s, x) : s \in {t \in shorter : Len(t) = n - 1}, x \in S}

DocLists == SeqsUpTo(Document, MaxDocs)

(***************************************************************************)
(* The ChromaDB collection, as the calls of vector_store.py use it: a bag  *)
(* of records {id, content, metadata, embedding}.                          *)
(***************************************************************************)
\* the vector the collection computes from a text with its own embedding
\* function, which it does for every add or update without embeddings=
EmbeddingFunction(text) == <<0, Len(text)>>

Record(doc) ==
    [id |-> DocId(doc), content |-> doc.content, metadata |-> doc.metadata,
     embedding |-> EmbeddingFunction(doc.content)]

\* collection.get(ids=[doc_id])['ids']
CollectionGet(coll, doc_id) == {r \in BagToSet(coll) : r.id = doc_id}

\* the test "if existing['ids']" of add_documents
IsExistingNever(coll, doc_id) == FALSE

IsExisting(coll, doc_id) == CollectionGet(coll, doc_id) # {}

\* the loop over one batch: the documents whose ids go into ids/texts/metadatas
NewDocs(coll, batch) == SelectSeq(batch, LAMBDA d : ~IsExisting(coll, DocId(d)))

\* collection.add rejects a call whose ids repeat (chromadb's DuplicateIDError)
HasDuplicateIds(docs) ==
    \E i, j \in 1..Len(docs) : i < j /\ DocId(docs[i]) = DocId(docs[j])

\* collection.add(ids=ids, documents=texts, metadatas=metadatas)
RECURSIVE CollectionAdd(_, _)
CollectionAdd(coll, docs) ==
    IF docs = <<>> THEN coll
    ELSE CollectionAdd(coll (+) SetToBag({Record(Head(docs))}), Tail(docs))

\* collection.update(ids=[doc_id], documents=[content], metadatas=[metadata])
CollectionUpdate(coll, doc_id, document) ==
    LET hit == CollectionGet(coll, doc_id)
        new == [id |-> doc_id, content |-> document.content,
                metadata |-> document.metadata,
                embedding |-> EmbeddingFunction(document.content)]
        copies == BagCardinality([r \in hit |-> coll[r]])
        kept == [r \in BagToSet(coll) \ hit |-> coll[r]]
    IN  IF hit = {} THEN coll ELSE kept (+) [r \in {new} |-> copies]

\* collection.delete(ids=ids)
CollectionDelete(coll, ids) == [r \in {x \in BagToSet(coll) : x.id \notin ids} |-> coll[r]]

\* VectorStore.get_document_count: collection.count()
get_document_count(coll) == BagCardinality(coll)

LiveIds(coll) == {r.id : r \in BagToSet(coll)}

(***************************************************************************)
(* VectorStore.add_documents: the loop over the batches, from position i.  *)
(* fault.at is the number of the batch whose collection.add meets a        *)
(* storage fault (0: none) and fault.partial the number of its records the *)
(* provider has written when it raises.  In the result, failed tells that  *)
(* a collection.add raised, at is the position of the batch it raised for, *)
(* and raised is what the caller of add_documents gets.                    *)
(***************************************************************************)
\* "except Exception as e: ... raise" around collection.add
BatchFailedSwallowed(coll, e, i, total_added) ==
    [coll |-> coll, failed |-> TRUE, raised |-> "none", ret |-> total_added, at |-> i]

BatchFailed(coll, e, i, total_added) ==
    [coll |-> coll, failed |-> TRUE, raised |-> e, ret |-> 0, at |-> i]

RECURSIVE AddFrom(_, _, _, _, _, _)
AddFrom(coll, documents, i, batch_size, total_added, fault) ==
    IF i > Len(documents)
    THEN [coll |-> coll, failed |-> FALSE, raised |-> "none", ret |-> total_added,
          at |-> 0]
    ELSE LET batch == SubSeq(documents, i, Min(i + batch_size - 1, Len(documents)))
             new == NewDocs(coll, batch)
             batchNo == ((i - 1) \div batch_size) + 1
         IN  IF new = <<>>
             THEN AddFrom(coll, documents, i + batch_size, batch_size,
                          total_added, fault)
             ELSE IF HasDuplicateIds(new)
             THEN BatchFailed(coll, "DuplicateIDError", i, total_added)
             ELSE IF fault.at = batchNo
             THEN BatchFailed(
                      CollectionAdd(coll,
                          SubSeq(new, 1, Min(fault.partial, Len(new) - 1))),
                      "StorageError", i, total_added)
             ELSE AddFrom(CollectionAdd(coll, new), documents, i + batch_size,
                          batch_size, total_added + Len(new), fault)

AddDocumentsResult(coll, documents, batch_size, fault) ==
    IF documents = <<>>
    THEN [coll |-> coll, failed |-> FALSE, raised |-> "none", ret |-> 0, at |-> 0]
    ELSE AddFrom(coll, documents, 1, batch_size, 0, fault)

NoFault == [at |-> 0, partial |-> 0]

\* the storage faults a call of add_documents can meet
Faults(documents, batch_size) ==
    {NoFault} \cup
    {[at |-> k, partial |-> p] :
        k \in 1..((Len(documents) + batch_size - 1) \div batch_size),
        p \in 0..(batch_size - 1)}

NoCall == [op |-> "none", docs |-> <<>>, batch_size |-> 0, failed |-> FALSE,
           at |-> 0, raised |-> "none", ret |-> 0, again |-> FALSE, ok |-> TRUE]

\* again: the previous call was add_documents with the same list and it, like
\* this one, met no storage fault
add_documents ==
    \E documents \in DocLists, batch_size \in BatchSizes :
        \E fault \in Faults(documents, batch_size) :
            LET res == AddDocumentsResult(collection, documents, batch_size, fault)
            IN  /\ collection' = res.coll
                /\ last' = [op |-> "add_documents", docs |-> documents,
                            batch_size |-> batch_size,
                            failed |-> res.failed, at |-> res.at,
                            raised |-> res.raised, ret |-> res.ret,
                            again |-> /\ last.op = "add_documents"
                                      /\ last.docs = documents
                                      /\ last.raised # "StorageError"
                                      /\ res.raised # "StorageError",
                            ok |-> res.raised = "none"]
                /\ UNCHANGED <<queryVars, otherVars>>

\* VectorStore.update_document: True, or False when collection.update raises
update_document ==
    \E doc_id \in AllIds, document \in Document, fault \in BOOLEAN :
        /\ collection' = IF fault THEN collection
                         ELSE CollectionUpdate(collection, doc_id, document)
        /\ last' = [NoCall EXCEPT !.op = "update_document", !.ok = ~fault]
        /\ UNCHANGED <<queryVars, otherVars>>

\* VectorStore.delete_documents: True, or False when collection.delete raises
delete_documents ==
    \E ids \in (SUBSET AllIds) \ {{}}, fault \in BOOLEAN :
        /\ collection' = IF fault THEN collection ELSE CollectionDelete(collection, ids)
        /\ last' = [NoCall EXCEPT !.op = "delete_documents", !.ok = ~fault]
        /\ UNCHANGED <<queryVars, otherVars>>

\* VectorStore.clear_collection: True, or False when delete_collection raises
clear_collection ==
    \E fault \in BOOLEAN :
        /\ collection' = IF fault THEN collection ELSE EmptyBag
        /\ last' = [NoCall EXCEPT !.op = "clear_collection", !.ok = ~fault]
        /\ UNCHANGED <<queryVars, otherVars>>

(***************************************************************************)
(* OllamaClient.generate_embedding and generate_text, each wrapped by      *)
(* @retry(exceptions=(requests.RequestException, ConnectionError),         *)
(*        tries=3, delay=1, backoff=2).                                    *)
(* A response is what one requests.post(...) and the reading of its body   *)
(* give: an exception (error), or a JSON object with or without the        *)
(* payload field.                                                          *)
(***************************************************************************)
Tries == 3
Delay == 1
Backoff == 2

\* subclasses of requests.RequestException: connection failure, timeout, and
\* the HTTPError of raise_for_status() for a non-2xx status
RequestExceptions == {"requests.ConnectionError", "requests.Timeout", "requests.HTTPError"}

\* the exceptions the decorator retries: RequestException and the builtin ConnectionError
RetryExceptions == RequestExceptions \cup {"ConnectionError"}

\* every exception a request can end with; "Exception" is any other class
Errors == RetryExceptions \cup {"Exception"}

Vectors == {<<>>, <<1, 2>>, <<3>>}
Texts == {"", "answer"}

NoResponse == [error |-> "none", field |-> FALSE, vector |-> <<>>, text |-> ""]

EmbeddingResponses ==
    {[NoResponse EXCEPT !.error = e] : e \in Errors}
    \cup {NoResponse}
    \cup {[NoResponse EXCEPT !.field = TRUE, !.vector = v] : v \in Vectors}

TextResponses ==
    {[NoResponse EXCEPT !.error = e] : e \in Errors}
    \cup {NoResponse}
    \cup {[NoResponse EXCEPT !.field = TRUE, !.text = t] : t \in Texts}

Responses(fn) == IF fn = "generate_embedding" THEN EmbeddingResponses ELSE TextResponses

\* the body of generate_embedding: data.get("embedding"), "if not embedding: raise"
generate_embedding(resp) ==
    IF resp.error # "none"
    THEN [raised |-> resp.error, vector |-> <<>>, text |-> ""]
    ELSE IF ~resp.field \/ resp.vector = <<>>
    THEN [raised |-> "ValueError", vector |-> <<>>, text |-> ""]
    ELSE [raised |-> "none", vector |-> resp.vector, text |-> ""]

\* the body of generate_text: data.get("response", "")
generate_text(resp) ==
    IF resp.error # "none"
    THEN [raised |-> resp.error, vector |-> <<>>, text |-> ""]
    ELSE [raised |-> "none", vector |-> <<>>,
          text |-> IF resp.field THEN resp.text ELSE ""]

Body(fn, resp) ==
    IF fn = "generate_embedding" THEN generate_embedding(resp)
    ELSE generate_text(resp)

IdleCall ==
    [fn |-> "none", status |-> "idle", tries |-> 0, delay |-> 0, requests |-> 0,
     slept |-> 0, resp |-> NoResponse, error |-> "none", vector |-> <<>>, text |-> ""]

NewCall(fn) ==
    [IdleCall EXCEPT !.fn = fn, !.status = "running", !.tries = Tries, !.delay = Delay]

\* the isinstance test of the decorator's "except exceptions"
RetriedNone(exc) == FALSE

RetriedAll(exc) == TRUE

Retried(exc) == exc \in RetryExceptions

\* one turn of the decorator's loop: call the body; on a retried exception
\* count the try down and raise when none is left, else sleep and back off
retry(c, out, resp) ==
    LET c1 == [c EXCEPT !.requests = @ + 1, !.resp = resp]
    IN  IF out.raised = "none"
        THEN [c1 EXCEPT !.status = "returned", !.vector = out.vector, !.text = out.text]
        ELSE IF Retried(out.raised)
        THEN IF c.tries - 1 = 0
             THEN [c1 EXCEPT !.tries = 0, !.status = "raised", !.error = out.raised]
             ELSE [c1 EXCEPT !.tries = @ - 1, !.slept = @ + c.delay,
                             !.delay = @ * Backoff]
        ELSE [c1 EXCEPT !.status = "raised", !.error = out.raised]

\* one request of the call in progress, and the decorator's reaction to it
ClientRequest ==
    /\ call.status = "running"
    /\ \E resp \in Responses(call.fn) :
          call' = retry(call, Body(call.fn, resp), resp)
    /\ gen_requests' = IF call.fn = "generate_text" THEN gen_requests + 1
                       ELSE gen_requests
    /\ UNCHANGED <<otherVars, collection, last, query>>

(***************************************************************************)
(* RAGEngine.search_documents and RAGEngine.query.                         *)
(* Distances are in tenths, min_similarity in hundredths, and a            *)
(* similarity score is the fraction num/den.                               *)
(***************************************************************************)
MaxResults == 2       \* largest n_results argument

Questions == {"q1", "q2"}
Thresholds == {0, 50, 100}
Distances == {0, 10, 30}
Elapsed == {0, 1}

NoInfoAnswer == "no information found"

\* f"生成回答时发生错误: {e}"
ErrorAnswer(e) == "generation error: " \o e

\* 1.0 / distance in the place of 1.0 / (1.0 + distance)
similarity_scoreInverse(distance) ==
    IF distance # 0 THEN [num |-> 10, den |-> distance]
    ELSE [num |-> 1, den |-> 1]

\* 1.0 / (1.0 + distance) if distance else 1.0
similarity_score(distance) ==
    IF distance # 0 THEN [num |-> 10, den |-> 10 + distance]
    ELSE [num |-> 1, den |-> 1]

\* score >= min_similarity
ScoreGeq(score, min_similarity) == score.num * 100 >= min_similarity * score.den

ScoreGt(score, min_similarity) == score.num * 100 > min_similarity * score.den

\* Document(content, metadata, source=metadata.get('source')): a truthy source
\* puts 'source' and 'file_size' into the metadata
MakeDocument(content, metadata) ==
    [content |-> content, source |-> metadata.source,
     metadata |-> [source |-> metadata.source, file_size |-> metadata.source # ""]]

\* the loop of search_documents over zip(documents, metadatas, distances), with
\* "or [{}] * n" and "or [0.0] * n" for a missing list
search_documents(results) ==
    LET n == Len(results.documents)
        metadatas == IF results.metadatas # <<>> THEN results.metadatas
                     ELSE [k \in 1..n |-> [source |-> ""]]
        distances == IF results.distances # <<>> THEN results.distances
                     ELSE [k \in 1..n |-> 0]
    IN  [k \in 1..n |->
            [doc |-> MakeDocument(results.documents[k], metadatas[k]),
             score |-> similarity_score(distances[k])]]

\* what collection.query can answer for n_results: the records found, each
\* with a distance; the lists metadatas and distances may be missing
Hits(coll, n) ==
    {h \in SeqsUpTo(BagToSet(coll), n) :
        /\ Len(h) = Min(n, Cardinality(BagToSet(coll)))
        /\ \A i, j \in 1..Len(h) : i # j => h[i] # h[j]}

search_similar(coll, n) ==
    UNION {
        {[documents |-> [k \in 1..Len(h) |-> h[k].content],
          metadatas |-> IF m THEN [k \in 1..Len(h) |-> h[k].metadata] ELSE <<>>,
          distances |-> d] :
            m \in BOOLEAN,
            d \in {x \in SeqsUpTo(Distances, n) : Len(x) = Len(h) \/ x = <<>>}} :
        h \in Hits(coll, n)}

\* step 2 of query: the results with score >= min_similarity
FilterResultsStrict(search_results, min_similarity) ==
    SelectSeq(search_results, LAMBDA r : ScoreGt(r.score, min_similarity))

FilterResults(search_results, min_similarity) ==
    SelectSeq(search_results, LAMBDA r : ScoreGeq(r.score, min_similarity))

\* "if not filtered_results: return ..."
NothingFoundNever(filtered_results) == FALSE

NothingFound(filtered_results) == filtered_results = <<>>

\* the entries of result["retrieved_documents"]
RetrievedDocuments(filtered_results) ==
    [k \in 1..Len(filtered_results) |->
        [content |-> filtered_results[k].doc.content,
         source |-> filtered_results[k].doc.source,
         similarity_score |-> filtered_results[k].score,
         metadata |-> filtered_results[k].doc.metadata]]

NoResult == [question |-> "", answer |-> "", retrieved_documents |-> <<>>,
             processing_time |-> 0]

IdleQuery ==
    [pc |-> "idle", question |-> "", n_results |-> 0, min_similarity |-> 0,
     results |-> [documents |-> <<>>, metadatas |-> <<>>, distances |-> <<>>],
     search_results |-> <<>>, filtered_results |-> <<>>,
     outcome |-> "none", error |-> "none", result |-> NoResult]

\* query is called: search_documents starts with generate_embedding(question)
QueryStart ==
    /\ query.pc = "idle"
    /\ \E question \in Questions, n_results \in 1..MaxResults,
          min_similarity \in Thresholds :
          query' = [IdleQuery EXCEPT !.pc = "embedding", !.question = question,
                                     !.n_results = n_results,
                                     !.min_similarity = min_similarity]
    /\ call' = NewCall("generate_embedding")
    /\ gen_requests' = 0
    /\ UNCHANGED <<otherVars, collection, last>>

\* generate_embedding raised: nothing in search_documents or query catches it
QueryEmbeddingRaised ==
    /\ query.pc = "embedding"
    /\ call.status = "raised"
    /\ query' = [query EXCEPT !.pc = "done", !.outcome = "raised", !.error = call.error]
    /\ UNCHANGED <<otherVars, collection, last, call, gen_requests>>

\* search_similar raised: it logs and raises again, and query does not catch it
QuerySearchRaised ==
    /\ query.pc = "embedding"
    /\ call.status = "returned"
    /\ query' = [query EXCEPT !.pc = "done", !.outcome = "raised",
                              !.error = "SearchError"]
    /\ UNCHANGED <<otherVars, collection, last, call, gen_requests>>

\* the answer of query from the outcome of generate_answer
AnswerNoCatch(c) == c.text

Answer(c) == IF c.status = "returned" THEN c.text ELSE ErrorAnswer(c.error)

\* search_similar answered: parse, filter, and either return the fixed answer
\* or go on to generate_answer, which calls generate_text
QuerySearch ==
    /\ query.pc = "embedding"
    /\ call.status = "returned"
    /\ \E results \in search_similar(collection, query.n_results) :
          LET search_results == search_documents(results)
              filtered_results == FilterResults(search_results, query.min_similarity)
          IN  IF NothingFound(filtered_results)
              THEN /\ query' = [query EXCEPT
                          !.pc = "done", !.outcome = "returned",
                          !.results = results,
                          !.search_results = search_results,
                          !.filtered_results = filtered_results,
                          !.result = [question |-> query.question,
                                      answer |-> NoInfoAnswer,
                                      retrieved_documents |-> <<>>,
                                      processing_time |-> 0]]
                   /\ UNCHANGED call
              ELSE /\ query' = [query EXCEPT
                          !.pc = "generating",
                          !.results = results,
                          !.search_results = search_results,
                          !.filtered_results = filtered_results]
                   /\ call' = NewCall("generate_text")
    /\ UNCHANGED <<otherVars, collection, last, gen_requests>>

\* generate_answer returned or raised: query builds its result either way
QueryAnswer ==
    /\ query.pc = "generating"
    /\ call.status \in {"returned", "raised"}
    /\ \E processing_time \in Elapsed :
          query' = [query EXCEPT
              !.pc = "done", !.outcome = "returned",
              !.result = [question |-> query.question,
                          answer |-> Answer(call),
                          retrieved_documents |->
                              RetrievedDocuments(query.filtered_results),
                          processing_time |-> processing_time]]
    /\ UNCHANGED <<otherVars, collection, last, call, gen_requests>>

(***************************************************************************)
(* The embedders of embedders.py that create_embedder builds.              *)
(* OllamaDirectEmbedder.generate_embedding carries the @retry decorator;   *)
(* OllamaLangchainEmbedder and OnlineModelEmbedder call their library once *)
(* inside "try: ... except Exception: log; raise".                         *)
(***************************************************************************)
EmbedderTypes == {"ollama_direct", "ollama_langchain", "online"}

IdleEmbedder == [embedder_type |-> "none", input |-> ""] @@ IdleCall

\* OllamaLangchainEmbedder.generate_embedding: embed_query(text), as it comes
langchain_generate_embedding(resp) ==
    IF resp.error # "none"
    THEN [raised |-> resp.error, vector |-> <<>>, text |-> ""]
    ELSE [raised |-> "none", vector |-> resp.vector, text |-> ""]

\* OnlineModelEmbedder.generate_embedding: result['embedding']
online_generate_embedding(resp) ==
    IF resp.error # "none"
    THEN [raised |-> resp.error, vector |-> <<>>, text |-> ""]
    ELSE IF ~resp.field
    THEN [raised |-> "KeyError", vector |-> <<>>, text |-> ""]
    ELSE [raised |-> "none", vector |-> resp.vector, text |-> ""]

\* a call of a method without decorator: its outcome is the body's outcome
Undecorated(c, out, resp) ==
    LET c1 == [c EXCEPT !.requests = @ + 1, !.resp = resp]
    IN  IF out.raised = "none"
        THEN [c1 EXCEPT !.status = "returned", !.vector = out.vector]
        ELSE [c1 EXCEPT !.status = "raised", !.error = out.raised]

\* create_embedder(embedder_type).generate_embedding(text) is called
EmbedderStart ==
    /\ embedder.status # "running"
    /\ \E embedder_type \in EmbedderTypes, text \in Contents \cup Questions :
          embedder' = [IdleEmbedder EXCEPT
              !.embedder_type = embedder_type, !.input = text,
              !.status = "running",
              !.tries = IF embedder_type = "ollama_direct" THEN Tries ELSE 0,
              !.delay = IF embedder_type = "ollama_direct" THEN Delay ELSE 0]
    /\ UNCHANGED <<storeVars, queryVars, cache, now, cache_call, ingest, split, moreVars>>

\* one request of the backend's service or library, and what the method
\* makes of it
EmbedderRequest ==
    /\ embedder.status = "running"
    /\ \E resp \in EmbeddingResponses :
          embedder' =
              CASE embedder.embedder_type = "ollama_direct" ->
                       retry(embedder, generate_embedding(resp), resp)
                [] embedder.embedder_type = "ollama_langchain" ->
                       Undecorated(embedder, langchain_generate_embedding(resp), resp)
                [] OTHER ->
                       Undecorated(embedder, online_generate_embedding(resp), resp)
    /\ UNCHANGED <<storeVars, queryVars, cache, now, cache_call, ingest, split, moreVars>>

(***************************************************************************)
(* TextSplitter.split_text (document_processor.py).  A text is a sequence  *)
(* of characters; positions are counted from 0 as in the code, so the      *)
(* slice text[start:end] is SubSeq(text, start + 1, Min(end, Len(text))).  *)
(***************************************************************************)
MaxLen == 5             \* longest text handed to split_text
MaxChunkSize == 4       \* largest chunk_size
MaxChunkOverlap == 3    \* largest chunk_overlap

Chars == {"a", ".", " "}
SplitTexts == SeqsUpTo(Chars, MaxLen)

Whitespace == {" ", "\n", "\t", "\r"}

sentence_endings == << <<".", " ">>, <<"!", " ">>, <<"?", " ">>, <<"\n", "\n">> >>

Abs(x) == IF x < 0 THEN -x ELSE x

Max(a, b) == IF a > b THEN a ELSE b

\* text[start:], a slice that ignores its end
SliceToEnd(text, start, end) == SubSeq(text, start + 1, Len(text))

\* text[start:end]
Slice(text, start, end) == SubSeq(text, start + 1, Min(end, Len(text)))

\* str.strip(), as the span [from, to) of s that it keeps
StripSpan(s) ==
    LET inked == {i \in 1..Len(s) : s[i] \notin Whitespace}
    IN  IF inked = {} THEN [from |-> 0, to |-> 0]
        ELSE [from |-> (CHOOSE i \in inked : \A j \in inked : i <= j) - 1,
              to |-> CHOOSE i \in inked : \A j \in inked : i >= j]

\* no stripping at all
StripNone(s) == s

Strip(s) == Slice(s, StripSpan(s).from, StripSpan(s).to)

\* text.rfind(ending, start, end): the highest position of ending inside
\* text[start:end], or -1
Rfind(text, ending, start, end) ==
    LET stop == Min(end, Len(text))
        found == {p \in start..(stop - Len(ending)) :
                     Slice(text, p, p + Len(ending)) = ending}
    IN  IF found = {} THEN -1
        ELSE CHOOSE p \in found : \A q \in found : p >= q

\* the loop "for ending in sentence_endings", from the k-th ending on
RECURSIVE BestEnd(_, _, _, _, _)
BestEnd(text, start, end, best_end, k) ==
    IF k > Len(sentence_endings) THEN best_end
    ELSE LET ending == sentence_endings[k]
             last_ending == Rfind(text, ending, start, end)
         IN  IF last_ending > start /\ Abs(last_ending - end) < Abs(best_end - end)
             THEN BestEnd(text, start, end, last_ending + Len(ending), k + 1)
             ELSE BestEnd(text, start, end, best_end, k + 1)

\* the loop "while start < len(text)".  r.chunks is the list built, r.spans
\* the span [from, to) of the text that each chunk is, r.iterations the
\* number of turns of the loop, r.windows the values of start, of
\* start + chunk_size and of end at "chunk = text[start:end]" in each turn
RECURSIVE SplitLoop(_, _, _, _, _)
SplitLoop(text, chunk_size, chunk_overlap, start, r) ==
    IF ~(start < Len(text)) THEN r
    ELSE LET end0 == start + chunk_size
             end == IF end0 < Len(text) THEN BestEnd(text, start, end0, end0, 1)
                    ELSE end0
             window == Slice(text, start, end)
             chunk == Strip(window)
             span == [from |-> start + StripSpan(window).from,
                      to |-> start + StripSpan(window).to]
             r1 == IF chunk # <<>>
                   THEN [r EXCEPT !.chunks = Append(@, chunk),
                                  !.spans = Append(@, span)]
                   ELSE r
         IN  SplitLoop(text, chunk_size, chunk_overlap,
                       Max(start + 1, end - chunk_overlap),
                       [r1 EXCEPT !.iterations = @ + 1,
                                  !.windows = Append(@, [start |-> start,
                                                         cut |-> end0,
                                                         end |-> end])])

split_text(text, chunk_size, chunk_overlap) ==
    IF text = <<>>
    THEN [chunks |-> <<>>, spans |-> <<>>, iterations |-> 0, windows |-> <<>>]
    ELSE SplitLoop(text, chunk_size, chunk_overlap, 0,
                   [chunks |-> <<>>, spans |-> <<>>, iterations |-> 0,
                    windows |-> <<>>])

IdleSplit == [called |-> FALSE, text |-> <<>>, chunk_size |-> 1, chunk_overlap |-> 0,
              chunks |-> <<>>, spans |-> <<>>, iterations |-> 0,
              windows |-> <<>>]

\* TextSplitter(chunk_size, chunk_overlap).split_text(text) is called and
\* returns; the function keeps no state, so one call is followed
SplitText ==
    /\ ~split.called
    /\ \E text \in SplitTexts, chunk_size \in 1..MaxChunkSize,
          chunk_overlap \in 0..MaxChunkOverlap :
          LET r == split_text(text, chunk_size, chunk_overlap)
          IN  split' = [called |-> TRUE, text |-> text, chunk_size |-> chunk_size,
                        chunk_overlap |-> chunk_overlap, chunks |-> r.chunks,
                        spans |-> r.spans, iterations |-> r.iterations,
                        windows |-> r.windows]
    /\ UNCHANGED <<storeVars, queryVars, embedder, cache, now, cache_call, ingest, moreVars>>

(***************************************************************************)
(* EmbeddingCache (vector_store.py): one file <md5(text)>.pkl per text     *)
(* under cache_dir.  A file is absent, holds the pickle of an embedding,   *)
(* or is corrupt (unreadable, or not a pickle); mtime is the time the file *)
(* system recorded for its last write, which no method of the class reads. *)
(***************************************************************************)
MaxTime == 3            \* the clock stops here
Ttl == 1                \* cache.ttl, and the default of set's ttl parameter

NoFile == [state |-> "absent", embedding |-> <<>>, mtime |-> 0]

\* EmbeddingCache._get_cache_key
_get_cache_key(text) == Md5(text)

\* the texts whose files an empty directory can come to hold
EmptyCache == [key \in {_get_cache_key(t) : t \in Contents} |-> NoFile]

None == [hit |-> FALSE, embedding |-> <<>>]

\* EmbeddingCache.get without its try/except around open and pickle.load
getUnguarded(files, text) ==
    LET cache_key == _get_cache_key(text)
        cache_file == files[cache_key]
    IN  CASE cache_file.state = "absent" ->
                 [raised |-> "none", value |-> None, files |-> files]
          [] cache_file.state = "pickle" ->
                 [raised |-> "none",
                  value |-> [hit |-> TRUE, embedding |-> cache_file.embedding],
                  files |-> files]
          [] OTHER ->
                 [raised |-> "UnpicklingError", value |-> None, files |-> files]

\* a get that finds nothing, whatever the directory holds
getMiss(files, text) == [raised |-> "none", value |-> None, files |-> files]

\* EmbeddingCache.get: the embedding of the file; a file that fails to load
\* is unlinked and None is returned
get(files, text) ==
    LET cache_key == _get_cache_key(text)
        cache_file == files[cache_key]
    IN  CASE cache_file.state = "absent" ->
                 [raised |-> "none", value |-> None, files |-> files]
          [] cache_file.state = "pickle" ->
                 [raised |-> "none",
                  value |-> [hit |-> TRUE, embedding |-> cache_file.embedding],
                  files |-> files]
          [] OTHER ->
                 [raised |-> "none", value |-> None,
                  files |-> [files EXCEPT ![cache_key] = NoFile]]

\* what can happen to the write of set: it completes, open(cache_file, 'wb')
\* raises and leaves the file as it was, or pickle.dump raises and leaves a
\* truncated file
WriteFaults == {"none", "open", "dump"}

\* a set that writes nothing
setNothing(files, text, embedding, ttl, fault, time) == files

\* EmbeddingCache.set: the parameter ttl is not used, and an exception of
\* the write is logged and dropped
set(files, text, embedding, ttl, fault, time) ==
    LET cache_key == _get_cache_key(text)
    IN  CASE fault = "none" ->
                 [files EXCEPT ![cache_key] =
                     [state |-> "pickle", embedding |-> embedding, mtime |-> time]]
          [] fault = "open" -> files
          [] OTHER ->
                 [files EXCEPT ![cache_key] =
                     [state |-> "corrupt", embedding |-> <<>>, mtime |-> time]]

\* EmbeddingCache.clear: every *.pkl file is unlinked
clear(files) == [key \in DOMAIN files |-> NoFile]

NoCacheCall == [op |-> "none", text |-> "", embedding |-> <<>>, fault |-> "none",
                time |-> 0, raised |-> "none", value |-> None]

cache_get ==
    /\ \E text \in Contents :
          LET r == get(cache, text)
          IN  /\ cache' = r.files
              /\ cache_call' = [NoCacheCall EXCEPT !.op = "get", !.text = text,
                                    !.time = now, !.raised = r.raised,
                                    !.value = r.value]
    /\ UNCHANGED <<storeVars, queryVars, embedder, now, ingest, split, moreVars>>

cache_set ==
    /\ \E text \in Contents, embedding \in Vectors, fault \in WriteFaults :
          /\ cache' = set(cache, text, embedding, Ttl, fault, now)
          /\ cache_call' = [NoCacheCall EXCEPT !.op = "set", !.text = text,
                                !.embedding = embedding, !.fault = fault,
                                !.time = now]
    /\ UNCHANGED <<storeVars, queryVars, embedder, now, ingest, split, moreVars>>

cache_clear ==
    /\ cache' = clear(cache)
    /\ cache_call' = [NoCacheCall EXCEPT !.op = "clear", !.time = now]
    /\ UNCHANGED <<storeVars, queryVars, embedder, now, ingest, split, moreVars>>

\* the environment damages a file of the cache directory
CacheDamage ==
    /\ \E key \in DOMAIN cache :
          /\ cache[key].state = "pickle"
          /\ cache' = [cache EXCEPT ![key].state = "corrupt", ![key].embedding = <<>>]
    /\ cache_call' = [NoCacheCall EXCEPT !.op = "damage", !.time = now]
    /\ UNCHANGED <<storeVars, queryVars, embedder, now, ingest, split, moreVars>>

\* time passes
Tick ==
    /\ now < MaxTime
    /\ now' = now + 1
    /\ UNCHANGED <<storeVars, queryVars, embedder, cache, cache_call, ingest, split, moreVars>>

(***************************************************************************)
(* RAGEngine.add_documents (rag_engine.py), from the list all_documents of *)
(* chunks that loading and splitting the paths gave: the loop that finds   *)
(* an embedding for each chunk, then vector_store.add_documents.           *)
(* ingest.lookups is what the cache lookup of each chunk met, ingest.fates  *)
(* the branch of the loop each chunk took, and ingest.embed_calls the      *)
(* number of generate_embedding calls made; ingest.run counts the calls of  *)
(* add_documents.  Over all the calls made with the cache enabled,         *)
(* ingest.embedded is the set of contents generate_embedding returned a    *)
(* vector for, ingest.twice those it did so for more than once, and        *)
(* ingest.unsaved those for which the write of embedding_cache.set failed. *)
(***************************************************************************)
DefaultBatchSize == 100     \* batch_size of VectorStore.add_documents
MaxIngestions == 2          \* add_documents calls made one after the other

IdleIngest ==
    [pc |-> "idle", run |-> 0, enabled |-> TRUE, all_documents |-> <<>>, k |-> 0,
     embedded_documents |-> <<>>, lookups |-> <<>>, fates |-> <<>>,
     embed_calls |-> 0,
     outcome |-> "none", error |-> "none", added_count |-> 0, written |-> 0,
     embedded |-> {}, twice |-> {}, unsaved |-> {}]

\* doc.metadata['embedding'] = embedding
WithEmbedding(doc, embedding) ==
    [content |-> doc.content,
     metadata |-> [source |-> doc.metadata.source, embedding |-> embedding]]

\* the next turn of "for doc in all_documents", or the end of the loop
NextChunk(ing) ==
    IF ing.k + 1 > Len(ing.all_documents)
    THEN [ing EXCEPT !.k = @ + 1, !.pc = "store"]
    ELSE [ing EXCEPT !.k = @ + 1, !.pc = "lookup"]

\* "except Exception as e: log; continue" around generate_embedding and set,
\* without the except
EmbeddingFailedRaises(ing, c) ==
    [ing EXCEPT !.pc = "done", !.outcome = "raised", !.error = c.error]

EmbeddingFailed(ing, c) ==
    NextChunk([ing EXCEPT !.fates = Append(@, "failed")])

\* add_documents is called and the paths are loaded and split
IngestStart ==
    /\ ingest.pc \in {"idle", "done"}
    /\ ingest.run < MaxIngestions
    /\ call.status # "running"
    /\ \E all_documents \in DocLists, enabled \in BOOLEAN :
          ingest' = NextChunk([IdleIngest EXCEPT !.run = ingest.run + 1,
                                                 !.enabled = enabled,
                                                 !.all_documents = all_documents,
                                                 !.embedded = ingest.embedded,
                                                 !.twice = ingest.twice,
                                                 !.unsaved = ingest.unsaved])
    /\ UNCHANGED <<storeVars, queryVars, embedder, cache, now, cache_call, split, moreVars>>

\* one turn of the loop up to the call of generate_embedding: with the cache
\* enabled, a truthy embedding_cache.get(doc.content) settles the chunk
IngestLookup ==
    /\ ingest.pc = "lookup"
    /\ LET doc == ingest.all_documents[ingest.k]
           r == get(cache, doc.content)
           met == cache[_get_cache_key(doc.content)].state
       IN  IF ~ingest.enabled
           THEN /\ ingest' = [ingest EXCEPT !.pc = "embedding", !.embed_calls = @ + 1,
                                            !.lookups = Append(@, "off")]
                /\ call' = NewCall("generate_embedding")
                /\ UNCHANGED cache
           ELSE IF r.raised # "none"
           THEN /\ ingest' = [ingest EXCEPT !.pc = "done", !.outcome = "raised",
                                            !.error = r.raised,
                                            !.lookups = Append(@, met)]
                /\ cache' = r.files
                /\ UNCHANGED call
           ELSE IF r.value.hit /\ r.value.embedding # <<>>
           THEN /\ ingest' = NextChunk([ingest EXCEPT
                         !.embedded_documents =
                             Append(@, WithEmbedding(doc, r.value.embedding)),
                         !.lookups = Append(@, met),
                         !.fates = Append(@, "cached")])
                /\ cache' = r.files
                /\ UNCHANGED call
           ELSE /\ ingest' = [ingest EXCEPT !.pc = "embedding", !.embed_calls = @ + 1,
                                            !.lookups = Append(@, met)]
                /\ call' = NewCall("generate_embedding")
                /\ cache' = r.files
    /\ UNCHANGED <<storeVars, query, gen_requests, embedder, now, cache_call, split, moreVars>>

\* generate_embedding returned: the embedding is cached and the chunk kept
IngestEmbedded ==
    /\ ingest.pc = "embedding"
    /\ call.status = "returned"
    /\ LET doc == ingest.all_documents[ingest.k]
           kept == NextChunk([ingest EXCEPT
                    !.embedded_documents = Append(@, WithEmbedding(doc, call.vector)),
                    !.fates = Append(@, "embedded")])
       IN  IF ingest.enabled
           THEN \E fault \in WriteFaults :
                   /\ cache' = set(cache, doc.content, call.vector, Ttl, fault, now)
                   /\ ingest' = [kept EXCEPT
                          !.embedded = @ \cup {doc.content},
                          !.twice = IF doc.content \in ingest.embedded
                                    THEN @ \cup {doc.content} ELSE @,
                          !.unsaved = IF fault # "none"
                                      THEN @ \cup {doc.content} ELSE @]
           ELSE /\ ingest' = kept
                /\ UNCHANGED cache
    /\ call' = IdleCall
    /\ UNCHANGED <<storeVars, query, gen_requests, embedder, now, cache_call, split, moreVars>>

\* generate_embedding raised, after its retries: the chunk is left out
IngestEmbeddingFailed ==
    /\ ingest.pc = "embedding"
    /\ call.status = "raised"
    /\ ingest' = EmbeddingFailed(ingest, call)
    /\ call' = IdleCall
    /\ UNCHANGED <<storeVars, query, gen_requests, embedder, cache, now,
                   cache_call, split, moreVars>>

\* the storage faults the one batch of the ingestion can meet
IngestFaults == {NoFault} \cup {[at |-> 1, partial |-> p] : p \in 0..(MaxDocs - 1)}

\* added_count = self.vector_store.add_documents(embedded_documents); the
\* outcome of the call is kept in ingest, and last keeps the calls made on
\* the store directly
IngestStore ==
    /\ ingest.pc = "store"
    /\ \E fault \in IngestFaults :
          LET res == AddDocumentsResult(collection, ingest.embedded_documents,
                                        DefaultBatchSize, fault)
          IN  /\ collection' = res.coll
              /\ ingest' = [ingest EXCEPT
                     !.pc = "done",
                     !.outcome = IF res.raised = "none" THEN "returned" ELSE "raised",
                     !.error = res.raised,
                     !.added_count = res.ret,
                     !.written = get_document_count(res.coll)
                                     - get_document_count(collection)]
    /\ UNCHANGED <<last, queryVars, embedder, cache, now, cache_call, split, moreVars>>

(***************************************************************************)
(* Configuration (config.py).  Of AppConfig the model keeps the two        *)
(* settings validate looks at besides the log level: ollama.base_url and   *)
(* vector_store.similarity_threshold, the threshold in hundredths.  A URL  *)
(* is its scheme prefix and the rest; a setting that a source may leave    *)
(* out is <<>> when left out and <<value>> when given.                     *)
(***************************************************************************)
Urls == {[scheme |-> "http://", rest |-> "localhost:11434"],
         [scheme |-> "https://", rest |-> "h"],
         [scheme |-> "", rest |-> "localhost:11434"]}

SimilarityThresholds == {-10, 0, 70, 100, 150}

Option(S) == {<<>>} \cup {<<v>> : v \in S}

\* AppConfig(): the defaults of OllamaConfig and VectorStoreConfig
AppConfig ==
    [base_url |-> [scheme |-> "http://", rest |-> "localhost:11434"],
     similarity_threshold |-> 70]

AppConfigs == [base_url : Urls, similarity_threshold : SimilarityThresholds]

\* what os.getenv sees: OLLAMA_BASE_URL; no variable carries the threshold
Environments == [OLLAMA_BASE_URL : Option(Urls)]

\* the file RAG_CONFIG_FILE names: whether it exists, and the keys its JSON has
ConfigFiles ==
    [exists : BOOLEAN, base_url : Option(Urls),
     similarity_threshold : Option(SimilarityThresholds)]

\* the keyword arguments of init_config that name a setting
Overrides ==
    [base_url : Option(Urls), similarity_threshold : Option(SimilarityThresholds)]

\* setattr for each setting given
update_config(obj, data) ==
    [base_url |-> IF data.base_url # <<>> THEN data.base_url[1] ELSE obj.base_url,
     similarity_threshold |->
         IF data.similarity_threshold # <<>> THEN data.similarity_threshold[1]
         ELSE obj.similarity_threshold]

\* AppConfig.from_env
from_env(env) ==
    [AppConfig EXCEPT !.base_url = IF env.OLLAMA_BASE_URL # <<>>
                                   THEN env.OLLAMA_BASE_URL[1] ELSE @]

\* AppConfig.from_file
from_file(file) ==
    IF ~file.exists THEN AppConfig ELSE update_config(AppConfig, file)

\* AppConfig.validate: the set of errors
validate(cfg) ==
    (IF cfg.base_url.scheme \notin {"http://", "https://"} THEN {"base_url"} ELSE {})
    \cup (IF ~(0 <= cfg.similarity_threshold /\ cfg.similarity_threshold <= 100)
          THEN {"similarity_threshold"} ELSE {})

\* get_config: the value of _config after the call, <<>> standing for None
get_config(cfg) ==
    IF cfg._config # <<>> THEN cfg._config[1]
    ELSE IF cfg.file.exists THEN from_file(cfg.file)
    ELSE from_env(cfg.env)

NoInit == [status |-> "none", overrides |-> [base_url |-> <<>>,
                                              similarity_threshold |-> <<>>]]

\* config.init is the last init_config call, config.engine whether a
\* RAGEngine exists (it holds the object _config names), config.requested
\* the base_url of the requests the engine's client has sent
ConfigStates ==
    {[env |-> env, file |-> file, _config |-> <<>>, init |-> NoInit,
      engine |-> FALSE, requested |-> {}] :
        env \in Environments,
        file \in {f \in ConfigFiles :
                     ~f.exists => (f.base_url = <<>> /\ f.similarity_threshold = <<>>)}}

IdleConfig ==
    [env |-> [OLLAMA_BASE_URL |-> <<>>],
     file |-> [exists |-> FALSE, base_url |-> <<>>, similarity_threshold |-> <<>>],
     _config |-> <<>>, init |-> NoInit, engine |-> FALSE, requested |-> {}]

\* init_config(**overrides): the overrides are set on the object get_config
\* returns, which is the one _config names, before validate is asked
init_config ==
    /\ \E overrides \in Overrides :
          LET loaded == update_config(get_config(config), overrides)
              errors == validate(loaded)
          IN  config' = [config EXCEPT
                  !._config = <<loaded>>,
                  !.init = [status |-> IF errors # {} THEN "raised" ELSE "returned",
                            overrides |-> overrides]]
    /\ UNCHANGED <<storeVars, queryVars, embedder, cache, now, cache_call, ingest,
                   split, adders, race>>

\* create_rag_engine(): RAGEngine.__init__ takes get_config() as it is
create_rag_engine ==
    /\ ~config.engine
    /\ config' = [config EXCEPT !._config = <<get_config(config)>>,
                                !.engine = TRUE]
    /\ UNCHANGED <<storeVars, queryVars, embedder, cache, now, cache_call, ingest,
                   split, adders, race>>

\* the engine's client posts to f"{config.ollama.base_url}/api/..."
EngineRequest ==
    /\ config.engine
    /\ config' = [config EXCEPT !.requested = @ \cup {config._config[1].base_url}]
    /\ UNCHANGED <<storeVars, queryVars, embedder, cache, now, cache_call, ingest,
                   split, adders, race>>

(***************************************************************************)
(* Two calls of VectorStore.add_documents on one collection, running at    *)
(* the same time.  Each collection.get and each collection.add is one      *)
(* step; the calls hold no lock, so the steps of the two interleave.  Each *)
(* call has one batch.  adders[p].ids is the list the call has gathered    *)
(* for collection.add, adders[p].counted the ids behind its total_added.   *)
(***************************************************************************)
Adders == {1, 2}

IdleAdder ==
    [pc |-> "idle", documents |-> <<>>, k |-> 0, ids |-> <<>>,
     raised |-> "none", ret |-> 0, counted |-> {}]

IdleAdders == [p \in Adders |-> IdleAdder]

\* what collection.add does with an id the collection already holds: it
\* leaves the record alone and returns, or it raises, depending on the
\* release of the provider
ExistingIdModes == {"ignored", "raised"}

\* add_documents(documents) is called: "if not documents: return 0"
AdderStart(p) ==
    /\ adders[p].pc = "idle"
    /\ \E documents \in DocLists :
          adders' = [adders EXCEPT ![p] =
              IF documents = <<>> THEN [IdleAdder EXCEPT !.pc = "done"]
              ELSE [IdleAdder EXCEPT !.pc = "checking", !.documents = documents,
                                     !.k = 1]]
    /\ UNCHANGED <<storeVars, queryVars, embedder, cache, now, cache_call, ingest,
                   split, config, race>>

\* one turn of "for doc in batch": collection.get(ids=[doc_id]) and the skip
AdderCheck(p) ==
    /\ adders[p].pc = "checking"
    /\ LET a == adders[p]
           doc == a.documents[a.k]
           ids == IF IsExisting(collection, DocId(doc)) THEN a.ids
                  ELSE Append(a.ids, doc)
           pc == IF a.k < Len(a.documents) THEN "checking"
                 ELSE IF ids # <<>> THEN "writing"
                 ELSE "done"
       IN  adders' = [adders EXCEPT ![p] = [a EXCEPT !.k = @ + 1, !.ids = ids,
                                                     !.pc = pc]]
    /\ UNCHANGED <<storeVars, queryVars, embedder, cache, now, cache_call, ingest,
                   split, config, race>>

\* "if ids: collection.add(...); total_added += len(ids)", or the raise
AdderWrite(p) ==
    /\ adders[p].pc = "writing"
    /\ LET a == adders[p]
           fresh == SelectSeq(a.ids, LAMBDA d : ~IsExisting(collection, DocId(d)))
       IN  IF HasDuplicateIds(a.ids)
           THEN /\ adders' = [adders EXCEPT ![p] =
                       [a EXCEPT !.pc = "done", !.raised = "DuplicateIDError"]]
                /\ UNCHANGED collection
           ELSE \E mode \in ExistingIdModes :
                   IF fresh # a.ids /\ mode = "raised"
                   THEN /\ adders' = [adders EXCEPT ![p] =
                               [a EXCEPT !.pc = "done", !.raised = "IDAlreadyExistsError"]]
                        /\ UNCHANGED collection
                   ELSE /\ collection' = CollectionAdd(collection, fresh)
                        /\ adders' = [adders EXCEPT ![p] =
                               [a EXCEPT !.pc = "done", !.ret = Len(a.ids),
                                         !.counted = {DocId(a.ids[i]) :
                                                         i \in 1..Len(a.ids)}]]
    /\ UNCHANGED <<last, queryVars, embedder, cache, now, cache_call, ingest,
                   split, config, race>>

(***************************************************************************)
(* EmbeddingCache.get running at the same time as EmbeddingCache.set for   *)
(* the same text, step by step on the one file <md5(text)>.pkl.            *)
(* race.linked says whether the directory has the file's name,             *)
(* race.content and race.embedding what a reader of that name finds, and   *)
(* race.last_written the vector of the last set; the writer keeps writing  *)
(* through its handle after the name is unlinked (race.writer.fd_linked    *)
(* turns FALSE), and what it writes is then in no file of the directory.   *)
(***************************************************************************)
MaxSets == 2            \* calls of set, one after the other
MaxGets == 2            \* calls of get, one after the other

SetVectors == Vectors \ {<<>>}

IdleRace ==
    [linked |-> FALSE, content |-> "none", embedding |-> <<>>,
     last_written |-> <<>>,
     writer |-> [pc |-> "idle", n |-> 0, embedding |-> <<>>, fd_linked |-> FALSE],
     reader |-> [pc |-> "idle", n |-> 0, found |-> "none", value |-> None,
                 returned |-> FALSE]]

\* set: open(cache_file, 'wb') creates the file or truncates it
RaceSetOpen ==
    /\ race.writer.pc = "idle"
    /\ race.writer.n < MaxSets
    /\ \E embedding \in SetVectors :
          race' = [race EXCEPT !.linked = TRUE, !.content = "empty",
                               !.embedding = <<>>,
                               !.writer = [pc |-> "dumping", n |-> @.n + 1,
                                           embedding |-> embedding,
                                           fd_linked |-> TRUE]]
    /\ UNCHANGED <<storeVars, queryVars, embedder, cache, now, cache_call, ingest,
                   split, config, adders>>

\* set: a first part of the pickle reaches the file
RaceSetPartial ==
    /\ race.writer.pc = "dumping"
    /\ race' = [race EXCEPT
           !.content = IF race.writer.fd_linked THEN "partial" ELSE @,
           !.writer.pc = "flushing"]
    /\ UNCHANGED <<storeVars, queryVars, embedder, cache, now, cache_call, ingest,
                   split, config, adders>>

\* set: pickle.dump finishes and the with block closes the file
RaceSetDump ==
    /\ race.writer.pc \in {"dumping", "flushing"}
    /\ race' = [race EXCEPT
           !.content = IF race.writer.fd_linked THEN "pickle" ELSE @,
           !.embedding = IF race.writer.fd_linked THEN race.writer.embedding ELSE @,
           !.last_written = race.writer.embedding,
           !.writer.pc = "idle"]
    /\ UNCHANGED <<storeVars, queryVars, embedder, cache, now, cache_call, ingest,
                   split, config, adders>>

\* get: "if cache_file.exists()", else "return None"
RaceGetExists ==
    /\ race.reader.pc = "idle"
    /\ race.reader.n < MaxGets
    /\ race' = [race EXCEPT !.reader =
           IF race.linked
           THEN [pc |-> "opening", n |-> @.n + 1, found |-> "none", value |-> None,
                 returned |-> FALSE]
           ELSE [pc |-> "idle", n |-> @.n + 1, found |-> "absent", value |-> None,
                 returned |-> TRUE]]
    /\ UNCHANGED <<storeVars, queryVars, embedder, cache, now, cache_call, ingest,
                   split, config, adders>>

\* get: open(cache_file, 'rb') and pickle.load; a whole pickle is returned,
\* anything else raises into the except branch
RaceGetLoad ==
    /\ race.reader.pc = "opening"
    /\ race' = [race EXCEPT !.reader =
           IF race.linked /\ race.content = "pickle"
           THEN [@ EXCEPT !.pc = "idle", !.found = "pickle", !.returned = TRUE,
                          !.value = [hit |-> TRUE, embedding |-> race.embedding]]
           ELSE [@ EXCEPT !.pc = "unlinking",
                          !.found = IF race.linked THEN race.content ELSE "absent"]]
    /\ UNCHANGED <<storeVars, queryVars, embedder, cache, now, cache_call, ingest,
                   split, config, adders>>

\* get: cache_file.unlink(missing_ok=True), then "return None"
RaceGetUnlink ==
    /\ race.reader.pc = "unlinking"
    /\ race' = [race EXCEPT !.linked = FALSE, !.content = "none",
                            !.embedding = <<>>,
                            !.writer.fd_linked = FALSE,
                            !.reader.pc = "idle", !.reader.returned = TRUE]
    /\ UNCHANGED <<storeVars, queryVars, embedder, cache, now, cache_call, ingest,
                   split, config, adders>>

\* nothing is in progress outside the store and the query, the cache
\* directory is empty and the clock is at 0
OtherInit ==
    /\ embedder = IdleEmbedder
    /\ cache = EmptyCache
    /\ now = 0
    /\ cache_call = NoCacheCall
    /\ ingest = IdleIngest
    /\ split = IdleSplit
    /\ config = IdleConfig
    /\ adders = IdleAdders
    /\ race = IdleRace

Init ==
    /\ collection = EmptyBag
    /\ last = NoCall
    /\ call = IdleCall
    /\ query = IdleQuery
    /\ gen_requests = 0
    /\ OtherInit

Next ==
    \/ add_documents
    \/ update_document
    \/ delete_documents
    \/ clear_collection

\* the vector store under any sequence of its calls
Spec == Init /\ [][Next]_vars

\* the collections one add_documents call leaves behind
QueryStores ==
    {AddDocumentsResult(EmptyBag, docs, 2, NoFault).coll : docs \in DocLists}

QueryInit ==
    /\ collection \in QueryStores
    /\ last = NoCall
    /\ call = IdleCall
    /\ query = IdleQuery
    /\ gen_requests = 0
    /\ OtherInit

QueryNext ==
    \/ QueryStart
    \/ ClientRequest
    \/ QueryEmbeddingRaised
    \/ QuerySearchRaised
    \/ QuerySearch
    \/ QueryAnswer

\* one query against a loaded collection
SpecQuery == QueryInit /\ [][QueryNext]_vars

EmbedderNext ==
    \/ EmbedderStart
    \/ EmbedderRequest

\* calls of generate_embedding on the embedders create_embedder builds
SpecEmbedder == Init /\ [][EmbedderNext]_vars

SplitNext == SplitText

\* a call of split_text
SpecSplit == Init /\ [][SplitNext]_vars

CacheNext ==
    \/ cache_get
    \/ cache_set
    \/ cache_clear
    \/ CacheDamage
    \/ Tick

\* the embedding cache under any sequence of its calls, as time passes
SpecCache == Init /\ [][CacheNext]_vars

IngestNext ==
    \/ IngestStart
    \/ IngestLookup
    \/ ClientRequest
    \/ IngestEmbedded
    \/ IngestEmbeddingFailed
    \/ IngestStore

\* ingestions one after the other, into an empty collection and cache
SpecIngest == Init /\ [][IngestNext]_vars

\* everything but the configuration is as at the start
RestInit ==
    /\ collection = EmptyBag
    /\ last = NoCall
    /\ call = IdleCall
    /\ query = IdleQuery
    /\ gen_requests = 0
    /\ embedder = IdleEmbedder
    /\ cache = EmptyCache
    /\ now = 0
    /\ cache_call = NoCacheCall
    /\ ingest = IdleIngest
    /\ split = IdleSplit
    /\ adders = IdleAdders
    /\ race = IdleRace

ConfigInit ==
    /\ config \in ConfigStates
    /\ RestInit

ConfigNext ==
    \/ init_config
    \/ create_rag_engine
    \/ EngineRequest

\* a process that starts under some environment and config file, and calls
\* init_config and builds its engine in any order
SpecConfig == ConfigInit /\ [][ConfigNext]_vars

ConcurrentNext ==
    \/ \E p \in Adders : AdderStart(p)
    \/ \E p \in Adders : AdderCheck(p)
    \/ \E p \in Adders : AdderWrite(p)

\* two add_documents calls on an empty collection, interleaved in any way
SpecConcurrent == Init /\ [][ConcurrentNext]_vars

RaceNext ==
    \/ RaceSetOpen
    \/ RaceSetPartial
    \/ RaceSetDump
    \/ RaceGetExists
    \/ RaceGetLoad
    \/ RaceGetUnlink

\* sets and gets of one text, interleaved in any way
SpecCacheRace == Init /\ [][RaceNext]_vars

(***************************************************************************)
(* Properties of the vector store, under Spec.                             *)
(***************************************************************************)
Range(s) == {s[k] : k \in 1..Len(s)}

\* C1: a second add_documents call with the same list of chunks writes
\* nothing: it returns 0 (and so leaves the count as it was).  Stated for the
\* calls that met no storage fault.
C1_SecondAddReturnsZero ==
    (last.op = "add_documents" /\ last.again) =>
        (last.raised = "none" /\ last.ret = 0)

\* C2: when no batch fails, add_documents returns the number of records it
\* wrote: the count grows by the returned number, which is the number of
\* distinct ids of the list that were not in the collection before the call;
\* the records that were there are left as they were.
C2_AddReturnsWritten ==
    [][(last'.op = "add_documents" /\ last'.raised = "none") =>
          LET fresh == {DocId(d) : d \in Range(last'.docs)} \ LiveIds(collection)
          IN  /\ last'.ret = Cardinality(fresh)
              /\ get_document_count(collection') =
                     get_document_count(collection) + last'.ret
              /\ \A r \in BagToSet(collection) :
                     /\ BagIn(r, collection')
                     /\ CopiesIn(r, collection') = CopiesIn(r, collection)
              /\ LiveIds(collection') = LiveIds(collection) \cup fresh]_vars

\* a call that returned normally, wrote a chunk and skipped a later chunk of
\* the same list that has the same id
C2_Witness ==
    /\ last.op = "add_documents"
    /\ last.raised = "none"
    /\ last.ret >= 1
    /\ last.ret < Len(last.docs)
    /\ \E i, j \in 1..Len(last.docs) :
          i < j /\ DocId(last.docs[i]) = DocId(last.docs[j])

\* C3: no two live records of the collection have the same id.
C3_UniqueIds ==
    \A r1 \in BagToSet(collection) :
        /\ CopiesIn(r1, collection) = 1
        /\ \A r2 \in BagToSet(collection) : r1.id = r2.id => r1 = r2

\* two live records, after an update_document that rewrote one of them
C3_Witness ==
    /\ last.op = "update_document"
    /\ last.ok
    /\ get_document_count(collection) >= 2
    /\ \E r \in BagToSet(collection) : r.id # _generate_id(r.content, r.metadata)

(***************************************************************************)
(* Properties of RAGEngine.query and of the client, under SpecQuery.       *)
(***************************************************************************)
\* the search results of the query whose score is at least min_similarity
Passing ==
    SelectSeq(query.search_results,
              LAMBDA r : r.score.num * 100 >= query.min_similarity * r.score.den)

Entry(r) ==
    [content |-> r.doc.content, source |-> r.doc.source,
     similarity_score |-> r.score, metadata |-> r.doc.metadata]

PassingEntries == [k \in 1..Len(Passing) |-> Entry(Passing[k])]

\* C4: query never raises: whatever the external calls do, it ends by
\* returning a result object.
C4_QueryNeverRaises ==
    query.pc = "done" => query.outcome = "returned"

\* C5: when a result passed the threshold and generate_text failed, query
\* returns normally, the answer is the string describing the error and
\* retrieved_documents lists exactly the results that passed the filter.
C5_GenerationFailureAnswered ==
    (query.pc = "done" /\ call.fn = "generate_text" /\ call.status = "raised") =>
        /\ query.outcome = "returned"
        /\ query.result.answer = ErrorAnswer(call.error)
        /\ query.result.retrieved_documents = PassingEntries
        /\ PassingEntries # <<>>
        /\ query.result.question = query.question

\* generate_text used up its three tries and query returned all the same
C5_Witness ==
    /\ query.pc = "done"
    /\ call.fn = "generate_text"
    /\ call.status = "raised"
    /\ call.requests = 3
    /\ query.outcome = "returned"
    /\ Len(query.result.retrieved_documents) >= 1

\* C6: retrieved_documents is exactly the search results with
\* similarity_score >= min_similarity, in search order, so none below the
\* threshold appears; on the success path the result carries the question
\* asked and the text the generation service returned.
C6_ThresholdFilter ==
    (query.pc = "done" /\ query.outcome = "returned") =>
        /\ query.result.retrieved_documents = PassingEntries
        /\ \A k \in 1..Len(query.result.retrieved_documents) :
              LET score == query.result.retrieved_documents[k].similarity_score
              IN  score.num * 100 >= query.min_similarity * score.den
        /\ (call.fn = "generate_text" /\ call.status = "returned") =>
              /\ query.result.question = query.question
              /\ query.result.answer = call.text
              /\ call.resp.field => query.result.answer = call.resp.text

\* a successful query that kept one search result and dropped another
C6_Witness ==
    /\ query.pc = "done"
    /\ query.outcome = "returned"
    /\ call.fn = "generate_text"
    /\ call.status = "returned"
    /\ call.resp.field
    /\ query.result.answer = "answer"
    /\ Len(query.result.retrieved_documents) = 1
    /\ Len(query.search_results) = 2

\* C7: when no search result passes the threshold (as when the store is
\* empty), query returns no retrieved document and the fixed answer, and
\* sends no request to the generation service.
C7_NothingFound ==
    (query.pc = "done" /\ query.outcome = "returned" /\ Passing = <<>>) =>
        /\ query.result.retrieved_documents = <<>>
        /\ query.result.answer = NoInfoAnswer
        /\ query.result.question = query.question
        /\ gen_requests = 0
        /\ call.fn # "generate_text"

\* a query against the empty collection that returned the fixed answer
C7_Witness ==
    /\ query.pc = "done"
    /\ query.outcome = "returned"
    /\ collection = EmptyBag
    /\ query.search_results = <<>>
    /\ query.result.answer = NoInfoAnswer
    /\ gen_requests = 0

\* connection error, timeout, non-2xx status
TransientErrors ==
    {"requests.ConnectionError", "requests.Timeout", "requests.HTTPError",
     "ConnectionError"}

\* a response that carries a usable embedding
GoodEmbedding(resp) == resp.error = "none" /\ resp.field /\ resp.vector # <<>>

\* C8: generate_embedding makes at most 3 requests; a request that fails
\* transiently is retried while fewer than 3 were made; the first request
\* that succeeds ends the call with its vector; a third transient failure
\* is raised to the caller.
C8_EmbeddingRetry ==
    (call.fn = "generate_embedding" /\ call.requests >= 1) =>
        /\ call.requests <= 3
        /\ (call.resp.error \in TransientErrors /\ call.requests < 3) =>
              call.status = "running"
        /\ GoodEmbedding(call.resp) =>
              (call.status = "returned" /\ call.vector = call.resp.vector)
        /\ (call.resp.error \in TransientErrors /\ call.requests = 3) =>
              (call.status = "raised" /\ call.error = call.resp.error)
        /\ call.status = "returned" => GoodEmbedding(call.resp)

\* fail, fail, succeed: the third request returned the vector
C8_Witness ==
    /\ call.fn = "generate_embedding"
    /\ call.status = "returned"
    /\ call.requests = 3
    /\ call.vector = <<1, 2>>

\* a response without a usable vector field, or an error of another class
NonTransient(resp) ==
    \/ resp.error = "Exception"
    \/ resp.error = "none" /\ (~resp.field \/ resp.vector = <<>>)

\* C9: a non-transient failure of generate_embedding is not retried: the
\* call is raised at that request, and after exactly one request when it
\* was the first.
C9_NonTransientNotRetried ==
    (call.fn = "generate_embedding" /\ call.requests >= 1 /\ NonTransient(call.resp)) =>
        /\ call.status = "raised"
        /\ call.error = IF call.resp.error = "none" THEN "ValueError" ELSE call.resp.error
        /\ call.slept = 0 => call.requests = 1

\* the first response had no embedding field and the call raised at once
C9_Witness ==
    /\ call.fn = "generate_embedding"
    /\ call.status = "raised"
    /\ call.error = "ValueError"
    /\ call.requests = 1
    /\ ~call.resp.field

\* C10: a generation response without its text field makes generate_text
\* fail after that one request, returning no value; with the field present
\* generate_text returns exactly that text.
C10_MissingTextFails ==
    (call.fn = "generate_text" /\ call.requests >= 1 /\ call.resp.error = "none") =>
        IF call.resp.field
        THEN call.status = "returned" /\ call.text = call.resp.text
        ELSE call.status = "raised"

(***************************************************************************)
(* Properties of the embedders, under SpecEmbedder.                        *)
(***************************************************************************)
\* C11: on every backend create_embedder builds, a generate_embedding call
\* that fails with a transient error has been tried 3 times before the
\* error reaches the caller.
C11_SameRetryContract ==
    (embedder.status = "raised" /\ embedder.error \in TransientErrors)
        => embedder.requests = Tries

(***************************************************************************)
(* More properties of the vector store, under Spec.                        *)
(***************************************************************************)
\* the number of records of the collection with the id
Copies(coll, doc_id) ==
    BagCardinality([r \in CollectionGet(coll, doc_id) |-> coll[r]])

\* C12: when a collection.add of add_documents raises, the caller gets the
\* error; the records the collection had and those of the batches before the
\* failing one are in the collection; and no record of a later batch has
\* been written.
C12_BatchFailureSurfaced ==
    [][ (last'.op = "add_documents" /\ last'.failed) =>
          LET docs == last'.docs
              at == last'.at
              reached == at + last'.batch_size - 1
              ids_reached == {DocId(docs[k]) : k \in 1..Min(reached, Len(docs))}
          IN  /\ last'.raised \in {"StorageError", "DuplicateIDError"}
              /\ ~last'.ok
              /\ collection \sqsubseteq collection'
              /\ \A k \in 1..(at - 1) : DocId(docs[k]) \in LiveIds(collection')
              /\ \A k \in (reached + 1)..Len(docs) :
                    DocId(docs[k]) \notin ids_reached =>
                        Copies(collection', DocId(docs[k]))
                            = Copies(collection, DocId(docs[k]))
      ]_vars

\* the second of two batches failed: the record of the first is the one
\* record of the collection
C12_Witness ==
    /\ last.op = "add_documents"
    /\ last.failed
    /\ last.raised = "StorageError"
    /\ last.batch_size = 1
    /\ last.at = 2
    /\ collection = SetToBag({Record(last.docs[1])})

(***************************************************************************)
(* Properties of the ingestion, under SpecIngest.                          *)
(***************************************************************************)
\* the chunks the loop did not leave out
RECURSIVE KeptChunks(_, _)
KeptChunks(docs, fates) ==
    IF docs = <<>> \/ fates = <<>> THEN <<>>
    ELSE IF Head(fates) # "failed"
    THEN <<Head(docs)>> \o KeptChunks(Tail(docs), Tail(fates))
    ELSE KeptChunks(Tail(docs), Tail(fates))

\* a chunk as it was before its embedding went into the metadata
Stripped(doc) ==
    [content |-> doc.content, metadata |-> [source |-> doc.metadata.source]]

\* C13: a chunk whose generate_embedding failed is the only one left out:
\* the list handed to the vector store is the list of the other chunks, in
\* order; the ingestion raises only when the store's write does; and the
\* count it returns is the number of records written.
C13_EmbeddingFailureDropsChunk ==
    ingest.pc \in {"store", "done"} =>
        /\ Len(ingest.fates) = Len(ingest.all_documents)
        /\ [k \in 1..Len(ingest.embedded_documents) |->
               Stripped(ingest.embedded_documents[k])]
               = KeptChunks(ingest.all_documents, ingest.fates)
        /\ (ingest.pc = "done" /\ ingest.outcome = "raised") =>
               ingest.error \in {"StorageError", "DuplicateIDError"}
        /\ (ingest.pc = "done" /\ ingest.outcome = "returned") =>
               ingest.added_count = ingest.written

\* the first of two chunks failed to embed, the second was written
C13_Witness ==
    /\ ingest.pc = "done"
    /\ ingest.outcome = "returned"
    /\ ingest.fates = <<"failed", "embedded">>
    /\ ingest.added_count = 1
    /\ ingest.written = 1

\* C14: the vector of every live record is the embedding that the cache or
\* the client gave for the record's chunk, which the ingestion put into the
\* chunk's metadata.
C14_StoredVectorIsEmbedding ==
    \A r \in BagToSet(collection) : r.embedding = r.metadata.embedding

\* C16: a cache lookup that meets a corrupt file raises nothing: the file is
\* removed, and the ingestion goes on to embed the same chunk.
C16_CorruptEntryIsMiss ==
    [][ (/\ ingest.pc = "lookup"
         /\ ingest.enabled
         /\ cache[_get_cache_key(ingest.all_documents[ingest.k].content)].state
                = "corrupt")
        => (/\ ingest'.pc = "embedding"
            /\ ingest'.k = ingest.k
            /\ ingest'.outcome = "none"
            /\ ingest'.fates = ingest.fates
            /\ call'.status = "running"
            /\ cache'[_get_cache_key(ingest.all_documents[ingest.k].content)]
                   = NoFile)
      ]_vars

\* the lookup of the chunk met a corrupt file, and the chunk is being embedded
C16_Witness ==
    /\ ingest.pc = "embedding"
    /\ ingest.enabled
    /\ ingest.lookups[ingest.k] = "corrupt"
    /\ cache[_get_cache_key(ingest.all_documents[ingest.k].content)] = NoFile
    /\ call.status = "running"

(***************************************************************************)
(* Properties of the embedding cache, under SpecCache.                     *)
(***************************************************************************)
\* C15: a get that yields a vector finds a file written at most ttl ago: an
\* entry older than ttl is not served.
C15_ExpiresAfterTtl ==
    (cache_call.op = "get" /\ cache_call.value.hit) =>
        cache_call.time - cache[_get_cache_key(cache_call.text)].mtime <= Ttl

C18_ShortTextOneChunk ==
    (/\ split.called
     /\ Len(split.text) <= split.chunk_size
     /\ Strip(split.text) # <<>>)
        => split.chunks = <<Strip(split.text)>>

\* the chunks in order, each without its characters that lie before the end
\* of the chunks before it
RECURSIVE NonOverlapping(_, _, _, _)
NonOverlapping(chunks, spans, k, covered) ==
    IF k > Len(chunks) THEN <<>>
    ELSE LET overlap == Max(covered - spans[k].from, 0)
         IN  SubSeq(chunks[k], overlap + 1, Len(chunks[k]))
                 \o NonOverlapping(chunks, spans, k + 1, Max(covered, spans[k].to))

\* C19: the chunks of split_text, each without the part that overlaps the
\* chunks before it, concatenate to text.strip().
C19_ChunksReconstructText ==
    split.called =>
        NonOverlapping(split.chunks, split.spans, 1, 0) = Strip(split.text)

(***************************************************************************)
(* Changed content under a source, under Spec.                             *)
(***************************************************************************)
\* the live records of the source
RecordsOf(coll, source) == {r \in BagToSet(coll) : r.metadata.source = source}

\* C20: when add_documents is given one chunk, meets no failure, and the
\* collection holds records of the chunk's source, all with other contents
\* than the chunk's, then the chunk gets an id that was not live, the count
\* grows by exactly one and every record the collection had is unchanged.
C20_ChangedContentNewId ==
    [][ (/\ last'.op = "add_documents"
         /\ last'.raised = "none"
         /\ Len(last'.docs) = 1
         /\ RecordsOf(collection, last'.docs[1].metadata.source) # {}
         /\ \A r \in RecordsOf(collection, last'.docs[1].metadata.source) :
               r.content # last'.docs[1].content)
        => (/\ DocId(last'.docs[1]) \notin LiveIds(collection)
            /\ BagIn(Record(last'.docs[1]), collection')
            /\ get_document_count(collection') = get_document_count(collection) + 1
            /\ collection \sqsubseteq collection')
      ]_vars

(***************************************************************************)
(* The similarity score, under SpecQuery.                                  *)
(***************************************************************************)
\* C21: the score of the k-th search result is 1 / (1 + distance) for the
\* distance the store reported for it, and 1 when the store reported no
\* distances or the distance 0; every score lies in [0, 1].  Distances are
\* in tenths, so 1 / (1 + d/10) = 10 / (10 + d).
C21_SimilarityScore ==
    query.pc \in {"generating", "done"} =>
        \A k \in 1..Len(query.search_results) :
            LET score == query.search_results[k].score
                reported == query.results.distances # <<>>
                d == IF reported THEN query.results.distances[k] ELSE 0
            IN  /\ score.den > 0
                /\ (reported /\ d # 0) => score.num * (10 + d) = 10 * score.den
                /\ (~reported \/ d = 0) => score.num = score.den
                /\ 0 <= score.num
                /\ score.num <= score.den

\* a search gave two results, one at distance 0 and one at distance 3.0
C21_Witness ==
    /\ query.pc \in {"generating", "done"}
    /\ Len(query.search_results) = 2
    /\ query.results.distances = <<0, 30>>
    /\ query.search_results[2].score = [num |-> 10, den |-> 40]

(***************************************************************************)
(* Identifiers of live records, under Spec.                                *)
(***************************************************************************)
\* C30: after any sequence of add_documents, update_document and
\* delete_documents, the id of every live record is the id _generate_id
\* derives from the record's own content and metadata.
C30_IdsDerivedFromContent ==
    \A r \in BagToSet(collection) : r.id = _generate_id(r.content, r.metadata)

(***************************************************************************)
(* Chunk boundaries, termination and chunk sizes, under SpecSplit.         *)
(***************************************************************************)
\* the positions after start in the window [start, cut) where a sentence
\* ending lies wholly inside the window
EndingsIn(text, start, cut) ==
    {p \in (start + 1)..(cut - 2) :
        \E k \in 1..Len(sentence_endings) : Slice(text, p, p + 2) = sentence_endings[k]}

\* C23: in every turn of the loop whose window [start, start + chunk_size)
\* stops short of the end of the text, the chunk ends just after the last
\* sentence ending that lies in the window after start, and at the hard cut
\* start + chunk_size only when the window holds no such ending.
C23_BoundaryAfterDelimiter ==
    split.called =>
        \A k \in 1..Len(split.windows) :
            LET w == split.windows[k]
                found == EndingsIn(split.text, w.start, w.cut)
            IN  w.cut < Len(split.text) =>
                    IF found = {} THEN w.end = w.cut
                    ELSE w.end = (CHOOSE p \in found : \A q \in found : p >= q) + 2

\* C24: split_text returns after at most len(text) turns of its loop, start
\* grows by at least one from each turn to the next, whatever chunk_overlap
\* is; every chunk is non-empty and neither begins nor ends with whitespace;
\* the empty text gives the empty list.
C24_TerminatesWithCleanChunks ==
    split.called =>
        /\ split.iterations <= Len(split.text)
        /\ Len(split.windows) = split.iterations
        /\ \A k \in 1..(Len(split.windows) - 1) :
               split.windows[k + 1].start >= split.windows[k].start + 1
        /\ \A k \in 1..Len(split.chunks) :
               LET chunk == split.chunks[k]
               IN  /\ chunk # <<>>
                   /\ chunk[1] \notin Whitespace
                   /\ chunk[Len(chunk)] \notin Whitespace
        /\ split.text = <<>> => split.chunks = <<>>

\* chunk_overlap is at least chunk_size, the loop took as many turns as the
\* text has characters, and a window with blanks at both ends gave a chunk
C24_Witness ==
    /\ split.called
    /\ split.chunk_overlap >= split.chunk_size
    /\ split.iterations = Len(split.text)
    /\ split.iterations >= 4
    /\ \E k \in 1..Len(split.windows) :
          LET window == Slice(split.text, split.windows[k].start, split.windows[k].end)
          IN  /\ Len(window) >= 3
              /\ window[1] \in Whitespace
              /\ window[Len(window)] \in Whitespace
              /\ Strip(window) # <<>>

\* C29 as stated: no chunk has more than chunk_size characters, and a text
\* of more than chunk_size characters gives more than one chunk.
C29_LongTextManyChunks ==
    split.called =>
        /\ \A k \in 1..Len(split.chunks) : Len(split.chunks[k]) <= split.chunk_size
        /\ Len(split.text) > split.chunk_size => Len(split.chunks) > 1

\* C29, amended: no chunk has more than chunk_size characters, and a text
\* that is longer than chunk_size once its leading and trailing whitespace
\* is stripped gives more than one chunk.
C29_LongStrippedTextManyChunks ==
    split.called =>
        /\ \A k \in 1..Len(split.chunks) : Len(split.chunks[k]) <= split.chunk_size
        /\ Len(Strip(split.text)) > split.chunk_size => Len(split.chunks) > 1

\* a text of five characters without outer whitespace was cut with
\* chunk_size 4 into several chunks, one of them of full size
C29_Witness ==
    /\ split.called
    /\ split.chunk_size = 4
    /\ Len(Strip(split.text)) = 5
    /\ Len(split.chunks) > 1
    /\ \E k \in 1..Len(split.chunks) : Len(split.chunks[k]) = 4

C22_NoEngineOnInvalidConfig ==
    /\ validate(AppConfig) = {}
    /\ \A cfg \in AppConfigs :
           (\/ cfg.similarity_threshold < 0
            \/ cfg.similarity_threshold > 100
            \/ cfg.base_url.scheme \notin {"http://", "https://"})
           => validate(cfg) # {}
    /\ config.init.status # "none" =>
           (config.init.status = "raised" <=> validate(config._config[1]) # {})
    /\ config.engine => validate(config._config[1]) = {}
    /\ \A url \in config.requested : url.scheme \in {"http://", "https://"}

\* the setting a layered merge gives: the override when given, else the
\* file's value when the file exists and has the key, else the value of the
\* environment variable when set, else the default
Layered(override, in_file, in_env, default) ==
    IF override # <<>> THEN override[1]
    ELSE IF in_file # <<>> THEN in_file[1]
    ELSE IF in_env # <<>> THEN in_env[1]
    ELSE default

\* C28: the configuration the first get_config or init_config of a process
\* loads is the layered merge defaults -> environment -> file -> overrides:
\* a value of the environment that the file leaves out is kept when the
\* file exists, the file's value goes before the environment's, and an
\* override goes before both.
C28_LayeredMerge ==
    [][ (config._config = <<>> /\ config'._config # <<>>)
        => LET overrides == IF config'.init.status # "none"
                            THEN config'.init.overrides ELSE NoInit.overrides
           IN  /\ config'._config[1].base_url =
                      Layered(overrides.base_url, config.file.base_url,
                              config.env.OLLAMA_BASE_URL, AppConfig.base_url)
               /\ config'._config[1].similarity_threshold =
                      Layered(overrides.similarity_threshold,
                              config.file.similarity_threshold, <<>>,
                              AppConfig.similarity_threshold)
      ]_vars

(***************************************************************************)
(* Concurrent ingestion, under SpecConcurrent.                             *)
(***************************************************************************)
\* C25: when two add_documents calls run at the same time, no id is behind
\* the returned count of both: at most one of the calls writes and counts a
\* chunk, and the other skips it.
C25_AtMostOneCounts ==
    (adders[1].pc = "done" /\ adders[2].pc = "done") =>
        adders[1].counted \cap adders[2].counted = {}

(***************************************************************************)
(* A get racing a set, under SpecCacheRace.                                *)
(***************************************************************************)
\* C26: a get that runs while a set of the same text is writing returns
\* absent or a whole vector that a set wrote, never part of one; it does
\* not remove the file that is being written; and once no call is running,
\* the cache holds the vector of the last set.
C26_GetNeverHarmsSet ==
    /\ race.reader.returned =>
           (race.reader.value = None \/ race.reader.value.embedding \in SetVectors)
    /\ race.writer.pc \in {"dumping", "flushing"} => race.writer.fd_linked
    /\ (race.writer.pc = "idle" /\ race.reader.pc = "idle" /\ race.writer.n > 0) =>
           (race.linked /\ race.content = "pickle"
                        /\ race.embedding = race.last_written)
====
